---- MODULE Spec2Model ----
(***************************************************************************)
(* A model of anthropic_api_fundamentals/getting_started.py: a linear      *)
(* script that loads .env, reads ANTHROPIC_API_KEY, builds a client,       *)
(* issues one messages.create call and prints the first content block's    *)
(* text when that block is a TextBlock.                                    *)
(*                                                                         *)
(* Strings that are only compared (keys, exception names, block kinds) are *)
(* TLA+ strings.  Text that is written to standard output is a sequence of *)
(* character codes, so that what print() adds is visible.                  *)
(***************************************************************************)
EXTENDS Integers, Sequences, FiniteSets, TLC

\* Bounds of the model.
MaxTextLen == 1
MaxContent == 2

\* Python's None, for values that are strings in the program.
NoneVal == "None"

\* The credentials a run may meet: one the service accepts, one it rejects,
\* and the empty string.
ValidKey == "valid-key-123"
BadKey == "rejected-key"
EmptyKey == ""
KeyStrings == {ValidKey, BadKey, EmptyKey}

\* The value of ANTHROPIC_API_KEY in os.environ; NoneVal when it is not set.
EnvValues == KeyStrings \cup {NoneVal}
\* The value .env gives ANTHROPIC_API_KEY; NoneVal when there is no file or
\* no such entry in it.
DotenvValues == KeyStrings \cup {NoneVal}

\* Character codes of the texts of the model: a letter and a line feed.
Chars == {97, 10}
Texts == UNION {[1..n -> Chars] : n \in 0..MaxTextLen}

\* Content blocks of a response (anthropic.types).  A TextBlock carries its
\* text; a ThinkingBlock carries text too, under another attribute; a
\* ToolUseBlock carries none.
TextBlocks == [type : {"text"}, data : Texts]
OtherBlocks == [type : {"thinking"}, data : Texts] \cup [type : {"tool_use"}, data : {<<>>}]
Blocks == TextBlocks \cup OtherBlocks
Contents == UNION {[1..n -> Blocks] : n \in 0..MaxContent}

\* The value of content_block before line 30 has run.
NoBlock == [type |-> "unset", data |-> <<>>]
\* response.content[0] on an empty list raises IndexError.
IndexErrorBlock == [type |-> "IndexError", data |-> <<>>]

NoRequest == [model |-> "", max_tokens |-> 0, messages |-> <<>>]
NoClient == [built |-> FALSE, api_key |-> NoneVal]
NoResponse == [received |-> FALSE, content |-> <<>>]

VARIABLES
    pc,             \* the statement the script is at
    environ,        \* os.environ["ANTHROPIC_API_KEY"], NoneVal when unset
    dotenv,         \* the entry of the .env file, NoneVal when there is none
    my_api_key,     \* line 11
    client,         \* line 14
    request,        \* the arguments of messages.create, lines 17-26
    outcome,        \* how messages.create ended; "none" before it ran
    response,       \* line 17
    content_block,  \* line 30
    stdout,         \* the character codes written to standard output
    error,          \* the exception that propagated; "none" if none did
    exitStatus,     \* the exit status; -1 while the script runs
    reads,          \* number of os.getenv calls made
    netCalls,       \* number of requests put on the wire
    writes          \* number of print calls made

vars == <<pc, environ, dotenv, my_api_key, client, request, outcome, response,
          content_block, stdout, error, exitStatus, reads, netCalls, writes>>

----------------------------------------------------------------------------
\* Pure parts of the statements.

\* load_dotenv() with override=False: a variable already in os.environ is
\* kept (also when it is empty); one that is not set is taken from .env.
LoadDotenvResult(env, file) ==
    IF env = NoneVal /\ file # NoneVal THEN file ELSE env

\* os.getenv(name): the value, or None when the variable is not set.
Getenv(env) == env

ClientKeyFallback(k) == IF k = NoneVal THEN ValidKey ELSE k
\* The api_key argument of Anthropic(...): my_api_key itself.
ClientKey(k) == k

\* How Anthropic(api_key=k) can end.  Releases of the client library differ:
\* with no key some raise at construction, others defer to the call.
ConstructOutcomes(k) ==
    IF k = NoneVal THEN {"ok", "AnthropicError"} ELSE {"ok"}

\* Failures messages.create raises before anything is put on the wire.
LocalFailures == {"TypeError"}
\* Failures it raises after the request was put on the wire.
RemoteFailures == {"AuthenticationError", "APIConnectionError",
                   "RateLimitError", "APIStatusError"}

\* How client.messages.create(...) can end for a client bound to key k.
\* Without a key the library refuses to send; an empty key is refused by
\* the library or by the service, depending on the release.
CallOutcomes(k) ==
    CASE k = NoneVal  -> {"TypeError"}
      [] k = EmptyKey -> {"TypeError", "AuthenticationError", "APIConnectionError"}
      [] k = BadKey   -> {"AuthenticationError", "APIConnectionError"}
      [] OTHER        -> {"ok", "APIConnectionError", "RateLimitError", "APIStatusError"}

MaxTokens == 8000

BuildRequestNoMessages ==
    [model |-> "claude-haiku-4-5-20251001", max_tokens |-> MaxTokens, messages |-> <<>>]
\* The keyword arguments of messages.create.
BuildRequest ==
    [model      |-> "claude-haiku-4-5-20251001",
     max_tokens |-> MaxTokens,
     messages   |-> << [role    |-> "user",
                        content |-> "What should I search for to find the latest developments in C++?"] >>]

AfterCallFailureRetry == "create"
AfterCallFailureSwallow == "extract"
\* Where the script goes when messages.create raises: there is no try, so
\* the exception ends the run.
AfterCallFailure == "done"

IndexFirstLenient(c) == IF Len(c) = 0 THEN NoBlock ELSE c[1]
IndexLast(c) == IF Len(c) = 0 THEN IndexErrorBlock ELSE c[Len(c)]
IndexFirstText(c) ==
    IF \E i \in 1..Len(c) : c[i].type = "text"
    THEN c[CHOOSE i \in 1..Len(c) : c[i].type = "text" /\ \A j \in 1..(i-1) : c[j].type # "text"]
    ELSE IF Len(c) = 0 THEN IndexErrorBlock ELSE c[1]
\* response.content[0]
IndexFirst(c) == IF Len(c) = 0 THEN IndexErrorBlock ELSE c[1]

IsAnyBlock(b) == TRUE
\* isinstance(content_block, TextBlock)
IsTextBlock(b) == b.type = "text"

PrintBare(t) == t
\* What print(t) writes: t and a line feed.
PrintOut(t) == t \o <<10>>

\* Lines 30-32 as a function of the response's content:
\* <<standard output, exit status>>.
RunResult(c) ==
    LET b == IndexFirst(c) IN
    IF b = IndexErrorBlock THEN << <<>>, 1 >>
    ELSE IF IsTextBlock(b) THEN << PrintOut(b.data), 0 >>
    ELSE << <<>>, 0 >>

----------------------------------------------------------------------------
Init ==
    /\ pc = "load_dotenv"
    /\ environ \in EnvValues
    /\ dotenv \in DotenvValues
    /\ my_api_key = NoneVal
    /\ client = NoClient
    /\ request = NoRequest
    /\ outcome = "none"
    /\ response = NoResponse
    /\ content_block = NoBlock
    /\ stdout = <<>>
    /\ error = "none"
    /\ exitStatus = -1
    /\ reads = 0
    /\ netCalls = 0
    /\ writes = 0

\* Line 8.
LoadDotenv ==
    /\ pc = "load_dotenv"
    /\ environ' = LoadDotenvResult(environ, dotenv)
    /\ pc' = "getenv"
    /\ UNCHANGED <<dotenv, my_api_key, client, request, outcome, response,
                   content_block, stdout, error, exitStatus, reads, netCalls, writes>>

\* Line 11.
GetApiKey ==
    /\ pc = "getenv"
    /\ my_api_key' = Getenv(environ)
    /\ reads' = reads + 1
    /\ pc' = "client"
    /\ UNCHANGED <<environ, dotenv, client, request, outcome, response,
                   content_block, stdout, error, exitStatus, netCalls, writes>>

\* Line 14.
CreateClient ==
    /\ pc = "client"
    /\ \E o \in ConstructOutcomes(ClientKey(my_api_key)) :
          IF o = "ok"
          THEN /\ client' = [built |-> TRUE, api_key |-> ClientKey(my_api_key)]
               /\ pc' = "create"
               /\ UNCHANGED <<error, exitStatus>>
          ELSE /\ error' = o
               /\ exitStatus' = 1
               /\ pc' = "done"
               /\ UNCHANGED client
    /\ UNCHANGED <<environ, dotenv, my_api_key, request, outcome, response,
                   content_block, stdout, reads, netCalls, writes>>

\* Lines 17-26.
CreateMessage ==
    /\ pc = "create"
    /\ request' = BuildRequest
    /\ \E o \in CallOutcomes(client.api_key) :
          /\ outcome' = o
          /\ netCalls' = IF o \in LocalFailures THEN netCalls ELSE netCalls + 1
          /\ IF o = "ok"
             THEN /\ \E c \in Contents : response' = [received |-> TRUE, content |-> c]
                  /\ pc' = "extract"
                  /\ UNCHANGED <<error, exitStatus>>
             ELSE /\ error' = o
                  /\ exitStatus' = 1
                  /\ pc' = AfterCallFailure
                  /\ UNCHANGED response
    /\ UNCHANGED <<environ, dotenv, my_api_key, client, content_block, stdout,
                   reads, writes>>

\* Line 30.
ExtractBlock ==
    /\ pc = "extract"
    /\ LET b == IndexFirst(response.content) IN
          IF b = IndexErrorBlock
          THEN /\ error' = "IndexError"
               /\ exitStatus' = 1
               /\ pc' = "done"
               /\ UNCHANGED content_block
          ELSE /\ content_block' = b
               /\ pc' = "check"
               /\ UNCHANGED <<error, exitStatus>>
    /\ UNCHANGED <<environ, dotenv, my_api_key, client, request, outcome, response,
                   stdout, reads, netCalls, writes>>

\* Line 31; when the test fails the script has reached its end.
CheckBlock ==
    /\ pc = "check"
    /\ IF IsTextBlock(content_block)
       THEN /\ pc' = "print"
            /\ UNCHANGED exitStatus
       ELSE /\ pc' = "done"
            /\ exitStatus' = 0
    /\ UNCHANGED <<environ, dotenv, my_api_key, client, request, outcome, response,
                   content_block, stdout, error, reads, netCalls, writes>>

\* Line 32, and the end of the script.
PrintText ==
    /\ pc = "print"
    /\ stdout' = stdout \o PrintOut(content_block.data)
    /\ writes' = writes + 1
    /\ pc' = "done"
    /\ exitStatus' = 0
    /\ UNCHANGED <<environ, dotenv, my_api_key, client, request, outcome, response,
                   content_block, error, reads, netCalls>>

Next ==
    \/ LoadDotenv
    \/ GetApiKey
    \/ CreateClient
    \/ CreateMessage
    \/ ExtractBlock
    \/ CheckBlock
    \/ PrintText

Spec == Init /\ [][Next]_vars

\* The script is one thread that runs each statement as soon as the one
\* before it returns.
FairSpec == Spec /\ WF_vars(Next)

Done == pc = "done"

----------------------------------------------------------------------------
\* The first content block of a received, non-empty response.
FirstIsText ==
    /\ response.received
    /\ Len(response.content) > 0
    /\ response.content[1].type = "text"

FirstIsOther ==
    /\ response.received
    /\ Len(response.content) > 0
    /\ response.content[1].type # "text"

CallFailed == outcome \in LocalFailures \cup RemoteFailures

\* C1 as stated: when the key is valid, the call succeeds and the first
\* content block is a text block, standard output at the end of the run is
\* exactly that block's text and nothing else.
C1_StdoutIsTextVerbatim ==
    (Done /\ client.api_key = ValidKey /\ outcome = "ok" /\ FirstIsText)
        => stdout = response.content[1].data

\* C1 as amended: in that case standard output is the block's text followed
\* by exactly one line feed, written by a single print.
C1_StdoutIsTextAndNewline ==
    (Done /\ client.api_key = ValidKey /\ outcome = "ok" /\ FirstIsText)
        => /\ stdout = response.content[1].data \o <<10>>
           /\ Len(stdout) = Len(response.content[1].data) + 1
           /\ writes = 1

C1_Witness ==
    /\ Done
    /\ client.api_key = ValidKey
    /\ outcome = "ok"
    /\ FirstIsText
    /\ response.content[1].data = <<97>>
    /\ stdout = <<97, 10>>

\* C2: when a response is received whose first content block is not a text
\* block, standard output is empty at the end of the run, no error was
\* raised and the exit status is zero.
C2_NonTextIsSilentSuccess ==
    (Done /\ FirstIsOther)
        => /\ stdout = <<>>
           /\ writes = 0
           /\ error = "none"
           /\ exitStatus = 0

C2_Witness ==
    /\ Done
    /\ FirstIsOther
    /\ response.content[1].type = "thinking"
    /\ Len(response.content[1].data) > 0
    /\ exitStatus = 0

\* C3: when ANTHROPIC_API_KEY is not set at the time it is read, nothing is
\* ever written to standard output, and the run ends with a non-zero status
\* on a failure raised either before any request was put on the wire or by
\* the service rejecting the request.
C3_AbsentCredentialFails ==
    (reads = 1 /\ my_api_key = NoneVal)
        => /\ stdout = <<>>
           /\ writes = 0
           /\ Done => /\ exitStatus # 0
                      /\ error # "none"
                      /\ netCalls = 0 \/ outcome = "AuthenticationError"

C3_Witness ==
    /\ Done
    /\ reads = 1
    /\ my_api_key = NoneVal
    /\ client.built
    /\ error = "TypeError"
    /\ exitStatus = 1

\* C4: when a response is received whose content is empty, the run fails
\* with IndexError at line 30: no block is extracted, the check and the
\* print are never reached, standard output is empty and the exit status
\* is non-zero.
C4_EmptyContentIndexError ==
    (response.received /\ Len(response.content) = 0)
        => /\ pc \in {"extract", "done"}
           /\ content_block = NoBlock
           /\ stdout = <<>>
           /\ writes = 0
           /\ Done => (error = "IndexError" /\ exitStatus # 0)

C4_Witness ==
    /\ Done
    /\ response.received
    /\ Len(response.content) = 0
    /\ error = "IndexError"

\* C5: whenever messages.create fails, the failure is the error the run
\* ends with: the run is at its end with a non-zero status, no response was
\* received, no block was extracted, nothing was printed and no second
\* request was made.
C5_CallFailurePropagates ==
    CallFailed
        => /\ Done
           /\ error = outcome
           /\ exitStatus # 0
           /\ ~response.received
           /\ content_block = NoBlock
           /\ stdout = <<>>
           /\ writes = 0
           /\ netCalls <= 1

C5_Witness ==
    /\ Done
    /\ outcome = "RateLimitError"
    /\ error = "RateLimitError"
    /\ netCalls = 1

\* C6: in every reachable state at most one request has been put on the
\* wire and at most one write to standard output has been made.
C6_AtMostOneCallOneWrite ==
    /\ netCalls <= 1
    /\ writes <= 1

C6_Witness ==
    /\ Done
    /\ netCalls = 1
    /\ writes = 1

\* C7: every run reaches its end, and at the end the exit status is
\* non-zero exactly when a failure propagated, which is exactly when the
\* call did not return a response with a non-empty content: a missing key,
\* a failed call or an empty content; it is zero in every other run, the
\* one with a non-text first block included.
C7_ExitStatus ==
    Done => /\ exitStatus \in {0, 1}
            /\ (exitStatus # 0) <=> (error # "none")
            /\ (exitStatus # 0) <=> ~(outcome = "ok" /\ Len(response.content) > 0)
            /\ my_api_key = NoneVal => exitStatus # 0
            /\ FirstIsOther => exitStatus = 0

C7_TerminatesWithStatus == <>Done /\ []C7_ExitStatus

C7_Witness ==
    /\ Done
    /\ FirstIsOther
    /\ exitStatus = 0

\* C8: the outcome of a run depends on the response through its first
\* content block only: at the end of a run that received a non-empty
\* content, standard output and exit status are those lines 30-32 give for
\* every other content with the same first block.
C8_OnlyFirstBlockConsumed ==
    (Done /\ response.received /\ Len(response.content) > 0)
        => \A c \in Contents :
              (Len(c) > 0 /\ c[1] = response.content[1])
                  => RunResult(c) = <<stdout, exitStatus>>

C8_Witness ==
    /\ Done
    /\ response.received
    /\ Len(response.content) = 2
    /\ response.content[1].type = "tool_use"
    /\ response.content[2].type = "text"
    /\ Len(response.content[2].data) > 0
    /\ stdout = <<>>

\* C9: the steps come in a fixed order.  The key is read at most once, and
\* exactly once before the client exists; the client is bound to the key
\* read and exists before the request is issued; a write to standard output
\* happens only after the one request returned a response whose first block
\* was extracted and is a text block; and once read, the key is neither
\* read again nor changed.
C9_StateOrder ==
    /\ reads <= 1
    /\ client.built => (reads = 1 /\ client.api_key = my_api_key)
    /\ (netCalls > 0 \/ outcome # "none") => client.built
    /\ writes > 0 => /\ netCalls = 1
                     /\ response.received
                     /\ Len(response.content) > 0
                     /\ content_block = response.content[1]
                     /\ content_block.type = "text"
    /\ stdout # <<>> => writes > 0

C9_KeyReadOnce ==
    reads > 0 => /\ reads' = reads
                 /\ my_api_key' = my_api_key
                 /\ environ' = environ

C9_FixedOrder == []C9_StateOrder /\ [][C9_KeyReadOnce]_vars

C9_Witness ==
    /\ Done
    /\ reads = 1
    /\ my_api_key = ValidKey
    /\ environ = ValidKey
    /\ dotenv = BadKey
    /\ writes = 1

\* C10: the request is the same in every run, whatever the key: one
\* message, of role user, a max_tokens of 8000, a fixed model name; a call
\* is never made without it, and once built it never changes.
C10_RequestShape ==
    /\ request # NoRequest =>
          /\ request.model = "claude-haiku-4-5-20251001"
          /\ request.max_tokens = 8000
          /\ request.max_tokens > 0
          /\ Len(request.messages) = 1
          /\ request.messages[1].role = "user"
    /\ outcome # "none" => request # NoRequest

C10_FixedRequest ==
    []C10_RequestShape /\ [][request # NoRequest => request' = request]_vars

C10_Witness ==
    /\ Done
    /\ client.api_key = BadKey
    /\ outcome = "AuthenticationError"
    /\ request.max_tokens = 8000
    /\ Len(request.messages) = 1
====
